---- MODULE Spec2Model ----
(***************************************************************************)
(* Model of the NLU dispatcher of server/src/core/nlp/nlu/nlu.ts: the      *)
(* model loader, process() with its action-loop and slot-filling handlers, *)
(* the language switch and the fallback matcher.                           *)
(*                                                                         *)
(* A text with dots ("skill.action", "domain.skill") is a tuple of its     *)
(* parts; an utterance is a sequence of one-character strings; a score is  *)
(* an integer number of hundredths (0.6 is 60, 1 is 100).                  *)
(***************************************************************************)
EXTENDS Integers, Sequences, FiniteSets, TLC

\* ------------------------------------------------------------------ bounds

\* Concurrent process() activations the model keeps.
MaxTasks == 2
\* Nested process() calls inside one turn.
MaxDepth == 2
\* Language switches whose kill callback and listener the model keeps.
MaxSwitches == 2
\* Alternate classifications the main classifier returns in a dialog turn.
MaxAlternates == 1
\* Fallback specification: length of the utterance, of the table, of a word list.
MaxUttLen == 3
MaxFallbacks == 2
MaxWords == 2
\* Re-pick specification: length of the classification list.
MaxClassifications == 2

\* ------------------------------------------------------------------ values

\* null / undefined
Null == "null"

\* newScore > 0.6
ScoreThreshold == 60

\* confidence: 1
FullConfidence == 100

Scores == {50, 60, 68, 72}

\* The scores of the classifications of a dialog turn: of the top intent, and
\* of the alternates.
TopScores == {68}

DialogScores == {50, 72}

Langs == {"en", "fr"}

\* Locales the main classifier may report; "xx" is in no LangHelper short code.
Locales == Langs \cup {"xx"}

Utterances == {"u1", "u2"}

\* The characters of the utterances and of the fallback words.
Chars == {"a", "b", "A", " "}

\* The text of the utterances of a dialog: "a b" and "b".
UtteranceText(u) ==
  IF u = "u1" THEN <<"a", " ", "b">> ELSE <<"b">>

EntityNames == {"product", "number"}

\* ------------------------------------------------------------------ skills

NoLoop == [name |-> Null, type |-> Null]

NoAction == [exists |-> FALSE, slots |-> <<>>, next_action |-> Null, loop |-> NoLoop]

\* The actions of the skill configs skills/{domain}/{skill}/config/{lang}.json:
\* ask has two slots and then runs setup; setup is followed by the loop guess,
\* guess by run, run by the loop confirm, which is followed by nothing.
ActionConfig(skill, action) ==
  CASE skill = "s1" /\ action = "ask" ->
         [exists |-> TRUE, slots |-> <<"item", "qty">>, next_action |-> "setup", loop |-> NoLoop]
    [] skill = "s1" /\ action = "setup" ->
         [exists |-> TRUE, slots |-> <<>>, next_action |-> "guess", loop |-> NoLoop]
    [] skill = "s1" /\ action = "guess" ->
         [exists |-> TRUE, slots |-> <<>>, next_action |-> "run",
          loop |-> [name |-> "number", type |-> "entity"]]
    [] skill = "s1" /\ action = "run" ->
         [exists |-> TRUE, slots |-> <<>>, next_action |-> "confirm", loop |-> NoLoop]
    [] skill = "s1" /\ action = "confirm" ->
         [exists |-> TRUE, slots |-> <<>>, next_action |-> Null,
          loop |-> [name |-> "answer", type |-> "global_resolver"]]
    [] skill = "s2" /\ action = "run" ->
         [exists |-> TRUE, slots |-> <<>>, next_action |-> Null, loop |-> NoLoop]
    [] OTHER -> NoAction

\* The entity a slot expects.
ExpectedEntity(slot) == IF slot = "item" THEN "product" ELSE "number"

NoneIntent == <<"None">>

\* The intents the main model was trained on, and None.
Intents ==
  {<<"s1", "ask">>, <<"s1", "run">>, <<"s1", "setup">>,
   <<"s1", "guess">>, <<"s1", "confirm">>, <<"s2", "run">>, NoneIntent}

\* const [skillName, actionName] = intent.split('.')
SkillOf(intent) == IF Len(intent) > 0 THEN intent[1] ELSE Null

ActionOf(intent) == IF Len(intent) > 1 THEN intent[2] ELSE Null

\* mainNlp.getIntentDomain(locale, intent)
getIntentDomain(intent) ==
  CASE SkillOf(intent) = "s1" -> "d1"
    [] SkillOf(intent) = "s2" -> "d2"
    [] OTHER -> "default"

\* mainNlp.slotManager.getMandatorySlots(intent)
getMandatorySlots(intent) ==
  [i \in 1..Len(ActionConfig(SkillOf(intent), ActionOf(intent)).slots) |->
     [name |-> ActionConfig(SkillOf(intent), ActionOf(intent)).slots[i],
      expectedEntity |-> ExpectedEntity(ActionConfig(SkillOf(intent), ActionOf(intent)).slots[i]),
      isFilled |-> FALSE]]

\* langs[...].fallbacks of a dialog: the words "a b", then the word "b".
DialogFallbacks ==
  <<[words |-> <<"a", "b">>, domain |-> "d2", skill |-> "s2", action |-> "run"],
    [words |-> <<"b">>, domain |-> "d1", skill |-> "s1", action |-> "run"]>>

\* ------------------------------------------------------------------ fallback

\* String.prototype.toLowerCase, character by character.
LowerChar(c) == IF c = "A" THEN "a" ELSE c

toLowerCase(text) == [i \in 1..Len(text) |-> LowerChar(text[i])]

\* String.prototype.split(' '): the texts between single spaces, empty ones kept.
RECURSIVE SplitFrom(_, _, _, _)
SplitFrom(text, i, cur, acc) ==
  IF i > Len(text) THEN Append(acc, cur)
  ELSE IF text[i] = " " THEN SplitFrom(text, i + 1, "", Append(acc, cur))
  ELSE SplitFrom(text, i + 1, cur \o text[i], acc)

split(text) == SplitFrom(text, 1, "", <<>>)

\* Array.prototype.includes
includes(arr, x) == \E k \in 1..Len(arr) : arr[k] = x

\* The j loop of fallback(): every word of fallbacks[i] found in the utterance is
\* pushed on tmpWords.
RECURSIVE FallbackWordsLoop(_, _, _, _)
FallbackWordsLoop(words, fbWords, j, tmpWords) ==
  IF j > Len(fbWords) THEN tmpWords
  ELSE FallbackWordsLoop(words, fbWords, j + 1,
         IF includes(words, fbWords[j]) THEN Append(tmpWords, fbWords[j]) ELSE tmpWords)

\* The i loop of fallback(): tmpWords is declared before the loop and is carried
\* from one fallback to the next; the index of the matched fallback, or 0.
RECURSIVE FallbackLoop(_, _, _, _)
FallbackLoop(words, fallbacks, i, tmpWords) ==
  IF i > Len(fallbacks) THEN 0
  ELSE LET tmp == FallbackWordsLoop(words, fallbacks[i].words, 1, tmpWords)
       IN  IF tmp = fallbacks[i].words THEN i
           ELSE FallbackLoop(words, fallbacks, i + 1, tmp)

\* fallback(fallbacks) on the utterance text: the index of the fallback it
\* returns, 0 when it returns false.
FallbackIndex(text, fallbacks) ==
  FallbackLoop(split(toLowerCase(text)), fallbacks, 1, <<>>)

\* ------------------------------------------------------------------ re-pick

\* PickLoop with the threshold taken as reached at 0.6.
RECURSIVE PickLoopAtLeast(_, _, _, _)
PickLoopAtLeast(classifications, k, name, pick) ==
  IF k > Len(classifications) THEN pick
  ELSE LET c == classifications[k]
           contextName == <<getIntentDomain(c.intent), SkillOf(c.intent)>>
       IN  PickLoopAtLeast(classifications, k + 1, name,
             IF c.score >= ScoreThreshold /\ name = contextName
             THEN [score |-> c.score, intent |-> c.intent,
                   domain |-> getIntentDomain(c.intent)]
             ELSE pick)

\* The classifications.forEach of process(): every classification above the
\* threshold whose context name is the active context's overwrites the pick.
RECURSIVE PickLoop(_, _, _, _)
PickLoop(classifications, k, name, pick) ==
  IF k > Len(classifications) THEN pick
  ELSE LET c == classifications[k]
           contextName == <<getIntentDomain(c.intent), SkillOf(c.intent)>>
       IN  PickLoop(classifications, k + 1, name,
             IF c.score > ScoreThreshold /\ name = contextName
             THEN [score |-> c.score, intent |-> c.intent,
                   domain |-> getIntentDomain(c.intent)]
             ELSE pick)

\* let { score, intent, domain } = result, then the re-pick when a context is
\* active (hasContext: conv.hasActiveContext(), name: conv.activeContext.name).
PickClassification(result, hasContext, name) ==
  LET top == [score |-> result.score, intent |-> result.intent, domain |-> result.domain]
  IN  IF hasContext THEN PickLoop(result.classifications, 1, name, top) ELSE top

\* ------------------------------------------------------------------ conversation

\* The name of no context.
NoName == <<>>

\* The active context after cleanActiveContext().
DefaultContext ==
  [name |-> NoName, lang |-> Null, intent |-> <<>>, domain |-> Null,
   actionName |-> Null, originalUtterance |-> Null, slots |-> <<>>,
   isInActionLoop |-> FALSE, nextAction |-> Null, entities |-> {}]

\* conv.hasActiveContext()
hasActiveContext(ctx) == ctx.name # NoName

\* conv.setSlots(lang, entities) on a slot ledger: every slot whose expected
\* entity is among the entities is filled.
setSlots(slots, entities) ==
  [i \in 1..Len(slots) |->
     [slots[i] EXCEPT !.isFilled = slots[i].isFilled \/ slots[i].expectedEntity \in entities]]

NotFilled(slots) == {i \in 1..Len(slots) : ~slots[i].isFilled}

\* conv.getNotFilledSlot(): the index of the first slot not filled, or 0.
getNotFilledSlot(ctx) ==
  IF NotFilled(ctx.slots) = {} THEN 0
  ELSE CHOOSE i \in NotFilled(ctx.slots) : \A j \in NotFilled(ctx.slots) : i <= j

\* conv.areSlotsAllFilled()
areSlotsAllFilled(ctx) == NotFilled(ctx.slots) = {}

\* conv.activeContext = obj, obj.path being obj.configDataFilePath: a context of
\* another name replaces the current one, its next action read from the skill
\* config; a context of the same name only brings its slots and entities.
setActiveContext(cur, obj) ==
  LET newName == <<obj.domain, SkillOf(obj.intent)>>
  IN  IF cur.name # newName
      THEN [name |-> newName, lang |-> obj.lang, intent |-> obj.intent,
            domain |-> obj.domain, actionName |-> obj.actionName,
            originalUtterance |-> obj.originalUtterance,
            slots |-> setSlots(obj.slots, obj.entities),
            isInActionLoop |-> obj.isInActionLoop,
            nextAction |-> ActionConfig(obj.path[2], obj.actionName).next_action,
            entities |-> obj.entities]
      ELSE [cur EXCEPT !.slots = setSlots(obj.slots, obj.entities),
                       !.entities = obj.entities]

\* ------------------------------------------------------------------ NLU result

NoPath == <<Null, Null, Null>>

\* An undefined confidence.
NoConfidence == 0 - 1

\* defaultNluResultObj; its null slots and an empty slots object are both <<>>.
\* owner is no property of the object but its identity: the activation whose
\* code built it (0 for the object of the module), by which a reference taken
\* before an await is told from the object the field holds after it.
defaultNluResultObj ==
  [utterance |-> Null, entities |-> {}, resolvers |-> <<>>, slots |-> <<>>,
   configDataFilePath |-> NoPath, domain |-> Null, skill |-> Null,
   action |-> Null, confidence |-> 0, owner |-> 0]

\* join(process.cwd(), 'skills', domain, skill, `config/${BRAIN.lang}.json`)
ConfigPath(domain, skill, l) == <<domain, skill, l>>

\* ------------------------------------------------------------------ brain

NoReply ==
  [utterance |-> Null, domain |-> Null, skill |-> Null, action |-> Null,
   next_action |-> Null, loop |-> FALSE, hasNextAction |-> FALSE,
   nextLoop |-> FALSE, slots |-> <<>>, configDataFilePath |-> NoPath, core |-> Null]

\* What the skill reports in core: a restart, the end of the loop
\* (isInActionLoop: false), or neither.
CoreReports == {"restart", "stop", "none"}

\* The result of BRAIN.execute(arg) when the action ran: the classification,
\* utterance, slots and config path of arg, the executed action's next_action
\* and loop, and the config of that next action.
BrainReply(arg, core) ==
  LET action == ActionConfig(arg.skill, arg.action)
      nextAction == ActionConfig(arg.skill, action.next_action)
  IN  [utterance |-> arg.utterance, domain |-> arg.domain, skill |-> arg.skill,
       action |-> arg.action, next_action |-> action.next_action,
       loop |-> action.loop # NoLoop, hasNextAction |-> nextAction.exists,
       nextLoop |-> nextAction.loop # NoLoop, slots |-> arg.slots,
       configDataFilePath |-> arg.configDataFilePath, core |-> core]

\* ------------------------------------------------------------------ state

VARIABLES
  models,        \* globalResolversNlp, skillsResolversNlp, mainNlp and their loading
  lang,          \* BRAIN.lang
  isMuted,       \* BRAIN.isMuted
  conv,          \* this.conv.activeContext
  nluResultObj,  \* this.nluResultObj
  tasks,         \* the process() activations
  killq,         \* tree-kill calls whose callback has not run
  tcp,           \* global.tcpServerProcess, the live processes, TCP_CLIENT
  listeners,     \* the 'connected' listeners of TCP_CLIENT.ee
  env,           \* what the callers of the session do
  lab            \* the inputs and the result of a function applied on its own

vars == <<models, lang, isMuted, conv, nluResultObj, tasks, killq, tcp,
          listeners, env, lab>>

ModelNames == {"globalResolversNlp", "skillsResolversNlp", "mainNlp"}

TaskIds == 1..MaxTasks

\* A process() activation with its callers: pc is the await it is suspended at,
\* utt, intent and domain the locals of the suspended functions, stack the call
\* sites waiting for a nested process(), ev the events of the turn, barg the
\* object handed to BRAIN.execute, and once the turn is over: out, the
\* settlement of the promise, res, its value, branch, the branch that ended the
\* innermost process(), reply, the result of the Brain.
IdleTask ==
  [pc |-> "idle", utt |-> Null, intent |-> <<>>, domain |-> Null, stack |-> <<>>,
   ev |-> <<>>, barg |-> defaultNluResultObj, out |-> Null, res |-> Null,
   branch |-> Null, reply |-> NoReply, slots0 |-> <<>>, by |-> Null]

\* Utterances sent without a limit.
Unlimited == 0 - 1

\* The callers of a session: they send utterances once the loaders have
\* settled (accept "settled") or at any time ("always"), at most `turns` of
\* them, `switches` of them in another language. Without `interleave` they
\* send one when no turn is running and the language switch of the last one
\* is over, and the 'connected' event arrives between turns; with it they
\* send one, and the event arrives, at any time.
\* `intents` are the intents the classifier finds in what they say.
QueuedCallers ==
  [accept |-> "settled", turns |-> Unlimited, switches |-> 1, interleave |-> FALSE,
   intents |-> Intents]

\* The intents of callers who ask for one action without slots, loop or next
\* action, or for nothing known.
PlainIntents == {<<"s2", "run">>, NoneIntent}

\* Utterances of a session that switches languages.
MaxSwitchTurns == 2

\* Callers who switch languages MaxSwitches times.
SwitchingCallers ==
  [accept |-> "settled", turns |-> MaxSwitchTurns, switches |-> MaxSwitches,
   interleave |-> FALSE, intents |-> PlainIntents]

\* No function is applied on its own.
NoLab == [kind |-> "none"]

\* The state after constructor(), but for the models.
Constructed ==
  /\ lang = "en"
  /\ conv = DefaultContext
  /\ nluResultObj = defaultNluResultObj
  /\ tasks = [t \in TaskIds |-> IdleTask]
  /\ killq = <<>>
  /\ tcp = [pid |-> 0, alive |-> {0}, connecting |-> 0]
  /\ listeners = <<>>

Loaded == [m \in ModelNames |-> [obj |-> "nlp", st |-> "loaded"]]

\* The models when the model files do not exist.
Missing == [m \in ModelNames |-> [obj |-> "empty", st |-> "missing"]]

\* A session whose loaders have settled: the three models are loaded, or
\* their files are missing.
Init ==
  /\ Constructed
  /\ models \in {Loaded, Missing}
  /\ isMuted \in BOOLEAN
  /\ env = QueuedCallers
  /\ lab = NoLab

\* The same session with callers who switch languages.
InitSwitch ==
  /\ Constructed
  /\ models = Loaded
  /\ isMuted = FALSE
  /\ env = SwitchingCallers
  /\ lab = NoLab

\* Utterances of a session that is starting.
MaxBootTurns == 2

\* Callers who do not wait for the loaders.
EarlyCallers ==
  [accept |-> "always", turns |-> MaxBootTurns, switches |-> 0,
   interleave |-> FALSE, intents |-> PlainIntents]

\* A session right after constructor(): loadNLPModels() has not been called.
InitBoot ==
  /\ Constructed
  /\ models = [m \in ModelNames |-> [obj |-> "empty", st |-> "new"]]
  /\ isMuted \in BOOLEAN
  /\ env = EarlyCallers
  /\ lab = NoLab

\* ------------------------------------------------------------------ loader

\* loadNLPModels(): the three loaders start; a model file that does not exist
\* rejects at once, the others await containerBootstrap().
loadNLPModels ==
  /\ \A m \in ModelNames : models[m].st = "new"
  /\ \E exists \in [ModelNames -> BOOLEAN] :
       models' = [m \in ModelNames |->
                    [obj |-> "empty", st |-> IF exists[m] THEN "bootstrapping" ELSE "missing"]]
  /\ UNCHANGED <<lang, isMuted, conv, nluResultObj, tasks, killq, tcp, listeners, env, lab>>

\* containerBootstrap() returns: the nlp object is assigned to the field, then
\* load(nlpModel) is awaited; or it throws and the loader rejects.
BootstrapReturn(m) ==
  /\ models[m].st = "bootstrapping"
  /\ \E ok \in BOOLEAN :
       models' = [models EXCEPT ![m] =
                    IF ok THEN [obj |-> "nlp", st |-> "loading"]
                    ELSE [obj |-> "empty", st |-> "failed"]]
  /\ UNCHANGED <<lang, isMuted, conv, nluResultObj, tasks, killq, tcp, listeners, env, lab>>

\* load(nlpModel) returns: the loader resolves; or it throws and the loader
\* rejects, the field keeping the nlp object.
LoadReturn(m) ==
  /\ models[m].st = "loading"
  /\ \E ok \in BOOLEAN :
       models' = [models EXCEPT ![m].st = IF ok THEN "loaded" ELSE "failed"]
  /\ UNCHANGED <<lang, isMuted, conv, nluResultObj, tasks, killq, tcp, listeners, env, lab>>

\* hasNlpModels(): Object.keys(...).length > 0 of the three fields.
hasNlpModels ==
  /\ models["globalResolversNlp"].obj # "empty"
  /\ models["skillsResolversNlp"].obj # "empty"
  /\ models["mainNlp"].obj # "empty"

\* this.ner is the Ner built once the main model is loaded, {} before.
HasNer == models["mainNlp"].st = "loaded"

\* ------------------------------------------------------------------ a turn

\* The state a synchronous stretch of a turn works on: the shared fields it may
\* write and the activation itself.
Bundle(t) ==
  [ctx |-> conv, nlu |-> nluResultObj, lang |-> lang, kq |-> killq, tcp |-> tcp,
   tk |-> tasks[t], id |-> t]

\* BRAIN.talk(...), SOCKET_SERVER.socket.emit(...) and the calls of the
\* collaborators, recorded in the turn's events.
Log(b, e) == [b EXCEPT !.tk.ev = Append(@, e)]

Talk(b, key) == Log(b, "talk:" \o key)

\* TypingOff with the emit left out.
TypingOffDropped(b) == b

\* SOCKET_SERVER.socket.emit('is-typing', false)
TypingOff(b) == Log(b, "is-typing:false")

\* The settlement of the outermost promise once the innermost process() has
\* settled as out: a caller awaiting a nested process() returns null when it
\* resolved; when it rejected, handleActionLoop's out-of-topic call throws out of
\* the executor ("pending": nothing settles the promise), its restart call is
\* inside the try and returns null, handleSlotFilling's call is caught by
\* process() and rejected.
RECURSIVE Unwind(_, _)
Unwind(stack, out) ==
  IF stack = <<>> THEN out
  ELSE LET frame == stack[Len(stack)]
           rest == SubSeq(stack, 1, Len(stack) - 1)
       IN  CASE out = "resolved" -> Unwind(rest, "resolved")
             [] out = "pending" -> "pending"
             [] out = "rejected" /\ frame = "loopOOT" -> "pending"
             [] out = "rejected" /\ frame = "loopRestart" -> Unwind(rest, "resolved")
             [] OTHER -> Unwind(rest, "rejected")

\* resolve(...) / reject(...) of the innermost process(): branch names the
\* branch, res the value.
Finish(b, out, branch, res) ==
  LET final == Unwind(b.tk.stack, out)
  IN  [b EXCEPT !.tk.pc = IF final = "pending" THEN "halted" ELSE "done",
                !.tk.out = final,
                !.tk.branch = branch,
                !.tk.res = IF b.tk.stack = <<>> THEN res
                           ELSE IF final = "resolved" THEN "null" ELSE "empty",
                !.tk.barg = defaultNluResultObj]

\* An exception leaves the async executor of process(): its promise, and the
\* promise of every caller awaiting it, stays pending.
Halt(b, branch) ==
  [b EXCEPT !.tk.pc = "halted", !.tk.out = "pending", !.tk.branch = branch,
            !.tk.barg = defaultNluResultObj]

\* process(utterance) up to its first await: the models check, then
\* mergeSpacyEntities(utterance) awaits Ner.getSpacyEntities.
Enter(b, utterance) ==
  LET b1 == Log(b, "process:" \o utterance)
  IN  IF ~hasNlpModels
      THEN Finish(IF ~isMuted THEN TypingOff(Talk(b1, "random_errors")) ELSE b1,
                  "rejected", "noModels", "msg")
      ELSE [b1 EXCEPT !.tk.pc = "merge", !.tk.utt = utterance]

\* await this.process(utterance) from a handler: frame is the call site.
Call(b, frame, utterance) ==
  IF Len(b.tk.stack) >= MaxDepth THEN [b EXCEPT !.tk.pc = "overflow"]
  ELSE Enter([b EXCEPT !.tk.stack = Append(@, frame)], utterance)

\* cleanActiveContext with the context left in place.
cleanActiveContextKept(b) == Log(b, "clean")

\* conv.cleanActiveContext()
cleanActiveContext(b) == [Log(b, "clean") EXCEPT !.ctx = DefaultContext]

\* handleActionLoopEntry with the classification built as slotFill builds its
\* first one, without a confidence.
handleActionLoopEntryUnscored(b) ==
  LET domain == b.ctx.domain
      intent == b.ctx.intent
  IN  [b EXCEPT
         !.nlu = [defaultNluResultObj EXCEPT !.owner = b.id,
                    !.slots = b.ctx.slots,
                    !.utterance = b.tk.utt,
                    !.configDataFilePath = ConfigPath(domain, SkillOf(intent), b.lang),
                    !.domain = domain,
                    !.skill = SkillOf(intent),
                    !.action = ActionOf(intent),
                    !.confidence = NoConfidence],
         !.tk.domain = domain,
         !.tk.intent = intent,
         !.tk.pc = "loopNer"]

\* handleActionLoop(utterance) up to await this.ner.extractEntities.
handleActionLoopEntry(b) ==
  LET domain == b.ctx.domain
      intent == b.ctx.intent
  IN  [b EXCEPT
         !.nlu = [defaultNluResultObj EXCEPT !.owner = b.id,
                    !.slots = b.ctx.slots,
                    !.utterance = b.tk.utt,
                    !.configDataFilePath = ConfigPath(domain, SkillOf(intent), b.lang),
                    !.domain = domain,
                    !.skill = SkillOf(intent),
                    !.action = ActionOf(intent),
                    !.confidence = FullConfidence],
         !.tk.domain = domain,
         !.tk.intent = intent,
         !.tk.pc = "loopNer"]

\* handleSlotFilling(utterance) and slotFill(utterance) up to
\* await this.ner.extractEntities: with no next action slotFill returns null and
\* handleSlotFilling calls process(utterance) again.
handleSlotFillingEntry(b) ==
  LET b0 == [Log(b, "slotFill") EXCEPT !.tk.slots0 = b.ctx.slots]
      domain == b.ctx.domain
      intent == b.ctx.intent
  IN  IF b.ctx.nextAction = Null
      THEN Call(b0, "slot", b.tk.utt)
      ELSE [b0 EXCEPT
              !.nlu = [defaultNluResultObj EXCEPT !.owner = b.id,
                         !.utterance = b.tk.utt,
                         !.domain = domain,
                         !.skill = SkillOf(intent),
                         !.action = ActionOf(intent),
                         !.confidence = NoConfidence],
              !.tk.domain = domain,
              !.tk.intent = intent,
              !.tk.pc = "slotNer"]

\* Dispatch with the slots looked at before the action loop.
DispatchSlotsFirst(b) ==
  IF hasActiveContext(b.ctx) /\ Len(b.ctx.slots) > 0 THEN handleSlotFillingEntry(b)
  ELSE IF hasActiveContext(b.ctx) /\ b.ctx.isInActionLoop THEN handleActionLoopEntry(b)
  ELSE [Log(b, "classify") EXCEPT !.tk.pc = "classify"]

\* The pre NLU processing of process(): the action loop, the slot filling, or
\* await this.mainNlp.process(utterance).
Dispatch(b) ==
  IF hasActiveContext(b.ctx) /\ b.ctx.isInActionLoop THEN handleActionLoopEntry(b)
  ELSE IF hasActiveContext(b.ctx) /\ Len(b.ctx.slots) > 0 THEN handleSlotFillingEntry(b)
  ELSE [Log(b, "classify") EXCEPT !.tk.pc = "classify"]

\* LoopDecide with the context left in place when the item is missing.
LoopDecideKeepsContext(b, matched) ==
  IF ~matched
  THEN Call(Talk(b, "random_context_out_of_topic"), "loopOOT", b.tk.utt)
  ELSE [Log(b, "execute") EXCEPT !.tk.barg = b.nlu, !.tk.pc = "loopBrain"]

\* The end of handleActionLoop's matching: without the expected item the
\* context is cleaned and process(utterance) called; with it BRAIN.execute.
LoopDecide(b, matched) ==
  IF ~matched
  THEN Call(cleanActiveContext(Talk(b, "random_context_out_of_topic")), "loopOOT", b.tk.utt)
  ELSE [Log(b, "execute") EXCEPT !.tk.barg = b.nlu, !.tk.pc = "loopBrain"]

\* switchLanguage(utterance, locale)
switchLanguage(b, utterance, locale) ==
  [Talk(b, "random_language_switch") EXCEPT
     !.lang = locale,
     !.kq = Append(@, [utterance |-> utterance, locale |-> locale, pid |-> b.tcp.pid])]

\* The writes of a synchronous stretch; a stretch that would nest process()
\* deeper than MaxDepth is not taken.
Commit(t, b) ==
  /\ b.tk.pc # "overflow"
  /\ conv' = b.ctx
  /\ nluResultObj' = b.nlu
  /\ lang' = b.lang
  /\ killq' = b.kq
  /\ tcp' = b.tcp
  /\ tasks' = [tasks EXCEPT ![t] = b.tk]

NoTaskRuns == \A t \in TaskIds : tasks[t].pc = "idle"

\* The caller sends an utterance: process(utterance), called when no turn is
\* running (the calls on a session are queued by the caller).
\* Every loader has resolved or rejected.
LoadSettled == \A m \in ModelNames : models[m].st \in {"missing", "loaded", "failed"}

Process(utterance) ==
  /\ NoTaskRuns
  /\ env.interleave \/ (killq = <<>> /\ tcp.connecting = 0)
  /\ env.accept = "always" \/ LoadSettled
  /\ env.turns # 0
  /\ env' = [env EXCEPT !.turns = IF @ > 0 THEN @ - 1 ELSE @]
  /\ Commit(1, Enter([Bundle(1) EXCEPT !.tk = [IdleTask EXCEPT !.by = "user"]], utterance))
  /\ UNCHANGED <<models, isMuted, listeners, lab>>

\* Ner.getSpacyEntities returns in mergeSpacyEntities: the entities are added
\* to the main classifier (its dictionary is inside the classifier, whose
\* answers are any of ClassifierResults) and the turn is dispatched; or the
\* call throws out of the executor.
MergeReturn(t) ==
  /\ tasks[t].pc = "merge"
  /\ \/ Commit(t, Dispatch(Bundle(t)))
     \/ Commit(t, Halt(Bundle(t), "mergeError"))
  /\ UNCHANGED <<models, isMuted, listeners, env, lab>>

\* The outcomes of this.ner.extractEntities: the entities found, or an error;
\* this.ner is {} until the main model is loaded and the call then throws.
NerOutcomes ==
  {[ok |-> FALSE, entities |-> {}]} \cup
  (IF HasNer THEN {[ok |-> TRUE, entities |-> E] : E \in SUBSET EntityNames} ELSE {})

\* this.nluResultObj.entities = await this.ner.extractEntities(...): the object
\* is taken from the field before the await, so the entities go to the object
\* this activation built; when another activation has replaced the object of
\* the field meanwhile, the field does not show them.
NerAssign(b, entities) ==
  IF b.nlu.owner = b.id THEN [b EXCEPT !.nlu.entities = entities] ELSE b

\* extractEntities returns in handleActionLoop: the skill config is read and
\* the expected item looked for; an exception here leaves handleActionLoop and
\* the executor.
LoopNerReturn(t) ==
  /\ tasks[t].pc = "loopNer"
  /\ \E o \in NerOutcomes, readOk \in BOOLEAN :
       LET b == Bundle(t)
           b1 == NerAssign(b, o.entities)
           action == ActionConfig(SkillOf(b.tk.intent), b1.nlu.action)
       IN  IF ~o.ok THEN Commit(t, Halt(b, "loopNerError"))
           ELSE IF ~readOk \/ ~action.exists \/ action.loop = NoLoop
           THEN Commit(t, Halt(b1, "loopConfigError"))
           ELSE IF action.loop.type = "entity"
           THEN Commit(t, LoopDecide(b1, action.loop.name \in b1.nlu.entities))
           ELSE Commit(t, [b1 EXCEPT !.tk.pc = "loopResolver"])
  /\ UNCHANGED <<models, isMuted, listeners, env, lab>>

\* The resolvers classifier returns in handleActionLoop: its intent is a
\* resolver of the expected item ("match"), is not ("nomatch"), or the call or
\* the reading of the resolver throws ("error").
LoopResolverReturn(t) ==
  /\ tasks[t].pc = "loopResolver"
  /\ \E o \in {"match", "nomatch", "error"} :
       LET b == Bundle(t)
           action == ActionConfig(SkillOf(b.tk.intent), b.nlu.action)
       IN  CASE o = "error" -> Commit(t, Halt(b, "loopResolverError"))
             [] o = "match" ->
                  Commit(t, LoopDecide(
                    [b EXCEPT !.nlu.resolvers = <<[name |-> action.loop.name, value |-> "value"]>>],
                    TRUE))
             [] OTHER -> Commit(t, LoopDecide(b, FALSE))
  /\ UNCHANGED <<models, isMuted, listeners, env, lab>>

\* BRAIN.execute returns in handleActionLoop.
LoopBrainReturn(t) ==
  /\ tasks[t].pc = "loopBrain"
  /\ \E o \in CoreReports \cup {"error"} :
       LET b == Bundle(t)
           processedData == BrainReply(b.tk.barg, o)
           b1 == [b EXCEPT !.tk.reply = processedData]
       IN  CASE o = "error" \/ ~ActionConfig(b.tk.barg.skill, b.tk.barg.action).exists ->
                  Commit(t, Finish(b, "resolved", "loopError", "null"))
             [] o = "restart" ->
                  Commit(t, Call(cleanActiveContext(b1), "loopRestart", b.ctx.originalUtterance))
             [] o = "stop" /\ processedData.next_action = Null ->
                  Commit(t, Finish(cleanActiveContext(b1), "resolved", "loopEnd", "null"))
             [] o = "stop" /\ processedData.next_action # Null ->
                  Commit(t, Finish(
                    [b1 EXCEPT !.ctx.isInActionLoop = processedData.loop,
                               !.ctx.actionName = processedData.next_action,
                               !.ctx.intent = <<processedData.skill, processedData.next_action>>],
                    "resolved", "loopNext", "brain"))
             [] OTHER -> Commit(t, Finish(b1, "resolved", "loop", "brain"))
  /\ UNCHANGED <<models, isMuted, listeners, env, lab>>

\* extractEntities returns in slotFill: a slot is filled and the next question
\* asked, or the context is cleaned and process(utterance) called, or the slots
\* are all filled and BRAIN.execute is called; an exception is caught by
\* process().
SlotNerReturn(t) ==
  /\ tasks[t].pc = "slotNer"
  /\ \E o \in NerOutcomes :
       LET b == Bundle(t)
           entities == o.entities
           notFilledSlot == getNotFilledSlot(b.ctx)
           hasMatch == /\ notFilledSlot # 0
                       /\ entities # {}
                       /\ b.ctx.slots[notFilledSlot].expectedEntity \in entities
           b1 == IF hasMatch THEN [b EXCEPT !.ctx.slots = setSlots(@, entities)] ELSE b
           skillName == SkillOf(b.tk.intent)
       IN  IF ~o.ok THEN Commit(t, Finish(b, "rejected", "slotNerError", "empty"))
           ELSE IF hasMatch /\ getNotFilledSlot(b1.ctx) # 0
           THEN Commit(t, Finish(TypingOff(Talk(b1, "pickedQuestion")),
                                 "resolved", "slotQuestion", "empty"))
           ELSE IF ~areSlotsAllFilled(b1.ctx)
           THEN Commit(t, Call(cleanActiveContext(Talk(b1, "random_context_out_of_topic")),
                               "slot", b.tk.utt))
           ELSE Commit(t,
                  LET obj == [defaultNluResultObj EXCEPT !.owner = b.id,
                                !.slots = IF b1.ctx.nextAction # Null THEN b1.ctx.slots ELSE <<>>,
                                !.utterance = b1.ctx.originalUtterance,
                                !.configDataFilePath = ConfigPath(b.tk.domain, skillName, b.lang),
                                !.domain = b.tk.domain,
                                !.skill = skillName,
                                !.action = b1.ctx.nextAction,
                                !.confidence = FullConfidence]
                  IN  [Log(cleanActiveContext(b1), "execute") EXCEPT
                         !.nlu = obj, !.tk.barg = obj, !.tk.pc = "slotBrain"])
  /\ UNCHANGED <<models, isMuted, listeners, env, lab>>

\* BRAIN.execute returns in slotFill: handleSlotFilling sets the context of the
\* next action when the result names one; an exception is caught by process().
SlotBrainReturn(t) ==
  /\ tasks[t].pc = "slotBrain"
  /\ \E ok \in BOOLEAN :
       LET b == Bundle(t)
           processedData == BrainReply(b.tk.barg, "none")
           b1 == [b EXCEPT !.tk.reply = processedData]
       IN  IF ~ok \/ ~ActionConfig(b.tk.barg.skill, b.tk.barg.action).exists
           THEN Commit(t, Finish(b, "rejected", "slotBrainError", "empty"))
           ELSE IF processedData.next_action = Null
           THEN Commit(t, Finish(b1, "resolved", "slotDone", "brain"))
           ELSE IF ~processedData.hasNextAction
           THEN Commit(t, Finish(b, "rejected", "slotBrainError", "empty"))
           ELSE Commit(t, Finish(
                  [b1 EXCEPT !.ctx = setActiveContext(b.ctx,
                     [lang |-> b.lang,
                      slots |-> processedData.slots,
                      isInActionLoop |-> processedData.nextLoop,
                      originalUtterance |-> processedData.utterance,
                      path |-> processedData.configDataFilePath,
                      actionName |-> processedData.next_action,
                      domain |-> processedData.domain,
                      intent |-> <<processedData.skill, processedData.next_action>>,
                      entities |-> {}])],
                  "resolved", "slotDone", "brain"))
  /\ UNCHANGED <<models, isMuted, listeners, env, lab>>

\* The classifications the main classifier lists beside its top intent.
AlternateIntents == {<<"s1", "ask">>, <<"s1", "run">>, <<"s2", "run">>}

Alternates ==
  UNION {[1..n -> [intent : AlternateIntents \cap env.intents, score : DialogScores]] :
           n \in 0..MaxAlternates}

\* What this.mainNlp.process(utterance) may return; the classifications are
\* read with an active context only and are left empty without one.
ClassifierResults(hasContext) ==
  {[locale |-> l, intent |-> i, score |-> sc, domain |-> getIntentDomain(i),
    classifications |-> cs] :
     l \in Locales, i \in env.intents, sc \in TopScores,
     cs \in IF hasContext THEN Alternates ELSE {<<>>}}

\* fallbackOn with the entities of the object left as they are.
fallbackOnKeepsEntities(obj, text, fallbacks) ==
  LET i == FallbackIndex(text, fallbacks)
  IN  IF i = 0 THEN obj
      ELSE [obj EXCEPT !.domain = fallbacks[i].domain,
                       !.skill = fallbacks[i].skill,
                       !.action = fallbacks[i].action,
                       !.confidence = FullConfidence]

\* fallback(fallbacks) on the NLU result object, text being the text of its
\* utterance: the object with the matched fallback's classification, or the
\* object untouched when it returns false.
fallbackOn(obj, text, fallbacks) ==
  LET i == FallbackIndex(text, fallbacks)
  IN  IF i = 0 THEN obj
      ELSE [obj EXCEPT !.entities = {},
                       !.domain = fallbacks[i].domain,
                       !.skill = fallbacks[i].skill,
                       !.action = fallbacks[i].action,
                       !.confidence = FullConfidence]

\* fallback(fallbacks) in a dialog.
fallback(obj, fallbacks) == fallbackOn(obj, UtteranceText(obj.utterance), fallbacks)

\* The end of a turn on a locale that is no short code of LangHelper.
UnsupportedLanguage(b) ==
  Finish(TypingOff(Talk(b, "random_language_not_supported")),
         "resolved", "unsupported", "empty")

\* IntentNotFound with the context cleaned, as for an utterance out of topic.
IntentNotFoundCleans(b) ==
  Finish(cleanActiveContext(IF ~isMuted THEN TypingOff(Talk(b, "random_unknown_intents")) ELSE b),
         "resolved", "notFound", "msg")

\* The end of a turn on the intent None that no fallback matches:
\* resolve({ processingTime, message: 'Intent not found' }).
IntentNotFound(b) ==
  Finish(IF ~isMuted THEN TypingOff(Talk(b, "random_unknown_intents")) ELSE b,
         "resolved", "notFound", "msg")

\* this.mainNlp.process returns: the classification is picked and stored, then
\* the unsupported locale, the language switch and the unknown intent end the
\* turn; otherwise this.ner.extractEntities is awaited.
ClassifyReturn(t) ==
  /\ tasks[t].pc = "classify"
  /\ \/ Commit(t, Halt(Bundle(t), "classifyError"))
     \/ \E result \in ClassifierResults(hasActiveContext(conv)) :
          LET b == Bundle(t)
              pick == PickClassification(result, hasActiveContext(b.ctx), b.ctx.name)
              intent == pick.intent
              b1 == [b EXCEPT !.nlu = [defaultNluResultObj EXCEPT !.owner = b.id,
                                         !.utterance = b.tk.utt,
                                         !.domain = pick.domain,
                                         !.skill = SkillOf(intent),
                                         !.action = ActionOf(intent),
                                         !.confidence = pick.score],
                              !.tk.intent = intent]
              matched == FallbackIndex(UtteranceText(b1.nlu.utterance), DialogFallbacks) # 0
              b2 == IF intent = NoneIntent
                    THEN [b1 EXCEPT !.nlu = fallback(b1.nlu, DialogFallbacks)] ELSE b1
          IN  CASE result.locale \notin Langs ->
                     Commit(t, UnsupportedLanguage(b1))
                [] result.locale \in Langs /\ b.lang # result.locale ->
                     /\ Len(listeners) + Len(b.kq) < env.switches
                     /\ Commit(t, Finish(switchLanguage(b1, b.tk.utt, result.locale),
                                         "resolved", "switch", "empty"))
                [] b.lang = result.locale /\ intent = NoneIntent /\ ~matched ->
                     Commit(t, IntentNotFound(b1))
                [] OTHER ->
                     Commit(t, [b2 EXCEPT
                       !.nlu.configDataFilePath = ConfigPath(b2.nlu.domain, b2.nlu.skill, b.lang),
                       !.tk.pc = "ner"])
  /\ UNCHANGED <<models, isMuted, listeners, env, lab>>

\* extractEntities returns in process(): an exception is caught and spoken;
\* then routeSlotFilling(intent) awaits getMandatorySlots.
NerReturn(t) ==
  /\ tasks[t].pc = "ner"
  /\ \E o \in NerOutcomes :
       LET b == Bundle(t)
       IN  IF o.ok
           THEN Commit(t, [NerAssign(b, o.entities) EXCEPT !.tk.pc = "route"])
           ELSE Commit(t, [(IF ~isMuted THEN Talk(b, "ner_error") ELSE b) EXCEPT !.tk.pc = "route"])
  /\ UNCHANGED <<models, isMuted, listeners, env, lab>>

\* FreshContext without the entities of the utterance.
FreshContextNoEntities(b, slots) ==
  [lang |-> b.lang, slots |-> slots, isInActionLoop |-> FALSE,
   originalUtterance |-> b.nlu.utterance, path |-> b.nlu.configDataFilePath,
   actionName |-> b.nlu.action, domain |-> b.nlu.domain, intent |-> b.tk.intent,
   entities |-> {}]

\* The object process() and routeSlotFilling() give to conv.activeContext.
FreshContext(b, slots) ==
  [lang |-> b.lang, slots |-> slots, isInActionLoop |-> FALSE,
   originalUtterance |-> b.nlu.utterance, path |-> b.nlu.configDataFilePath,
   actionName |-> b.nlu.action, domain |-> b.nlu.domain, intent |-> b.tk.intent,
   entities |-> b.nlu.entities]

\* getMandatorySlots returns in routeSlotFilling: with mandatory slots the
\* context is set and the first question asked (the turn resolves {}); else
\* process() goes on: the slot filling when the context holds slots, or the
\* context of the classification and BRAIN.execute.
RouteReturn(t) ==
  /\ tasks[t].pc = "route"
  /\ \E o \in {"ok", "error", "readError"} :
       LET b == Bundle(t)
           slots == getMandatorySlots(b.tk.intent)
           b1 == IF Len(slots) > 0
                 THEN [b EXCEPT !.ctx = setActiveContext(b.ctx, FreshContext(b, slots))]
                 ELSE b
           asks == Len(slots) > 0 /\ getNotFilledSlot(b1.ctx) # 0
           newContextName == <<b1.nlu.domain, SkillOf(b.tk.intent)>>
           b2 == IF b1.ctx.name # newContextName THEN cleanActiveContext(b1) ELSE b1
           b3 == [b2 EXCEPT !.ctx = setActiveContext(b2.ctx, FreshContext(b2, <<>>))]
           b4 == [b3 EXCEPT !.nlu.entities = b3.ctx.entities]
       IN  CASE o = "error" -> Commit(t, Halt(b, "routeError"))
             [] o = "readError" /\ asks -> Commit(t, Halt(b1, "routeConfigError"))
             [] o = "ok" /\ asks ->
                  Commit(t, Finish(TypingOff(Talk(Log(b1, "suggest"), "pickedQuestion")),
                                   "resolved", "question", "empty"))
             [] o # "error" /\ ~asks /\ hasActiveContext(b1.ctx) /\ Len(b1.ctx.slots) > 0 ->
                  Commit(t, handleSlotFillingEntry(b1))
             [] OTHER ->
                  Commit(t, [Log(b4, "execute") EXCEPT !.tk.barg = b4.nlu, !.tk.pc = "brain"])
  /\ UNCHANGED <<models, isMuted, listeners, env, lab>>

\* BrainCatch with the context cleaned before the turn is rejected.
BrainCatchCleans(b) ==
  Finish(cleanActiveContext(IF ~isMuted THEN TypingOff(b) ELSE b),
         "rejected", "brainError", "error")

\* The catch of process() around BRAIN.execute: is-typing when the Brain is
\* not muted, and reject(new Error(e?.message)).
BrainCatch(b) ==
  Finish(IF ~isMuted THEN TypingOff(b) ELSE b, "rejected", "brainError", "error")

\* BRAIN.execute returns in process(): the context rotates to the next action
\* when the result has one and the turn resolves; an exception rejects it.
BrainReturn(t) ==
  /\ tasks[t].pc = "brain"
  /\ \E ok \in BOOLEAN :
       LET b == Bundle(t)
           processedData == BrainReply(b.tk.barg, "none")
           b1 == [b EXCEPT !.tk.reply = processedData]
           b2 == cleanActiveContext(b1)
       IN  IF ~ok \/ ~ActionConfig(b.tk.barg.skill, b.tk.barg.action).exists
           THEN Commit(t, BrainCatch(b))
           ELSE IF processedData.hasNextAction
           THEN Commit(t, Finish(
                  [b2 EXCEPT !.ctx = setActiveContext(b2.ctx,
                     [lang |-> b.lang,
                      slots |-> <<>>,
                      isInActionLoop |-> processedData.nextLoop,
                      originalUtterance |-> processedData.utterance,
                      path |-> processedData.configDataFilePath,
                      actionName |-> processedData.next_action,
                      domain |-> processedData.domain,
                      intent |-> <<processedData.skill, processedData.next_action>>,
                      entities |-> {}])],
                  "resolved", "brain", "brain"))
           ELSE Commit(t, Finish(b1, "resolved", "brain", "brain"))
  /\ UNCHANGED <<models, isMuted, listeners, env, lab>>

\* this.nluResultObj once activation t is over: every path of process()
\* assigns the field before it reads it (handleActionLoop, slotFill and the
\* classification each build a new object), so what a finished turn leaves in
\* it is read by a turn still running only; with none running it is forgotten.
Leftover(t) ==
  IF \A u \in TaskIds \ {t} : tasks[u].pc = "idle" THEN defaultNluResultObj
  ELSE nluResultObj

\* The caller receives the settled promise of a turn.
Deliver(t) ==
  /\ tasks[t].pc = "done"
  /\ tasks' = [tasks EXCEPT ![t] = IdleTask]
  /\ nluResultObj' = Leftover(t)
  /\ UNCHANGED <<models, lang, isMuted, conv, killq, tcp, listeners, env, lab>>

\* A turn whose promise can no longer settle is left behind.
Abandon(t) ==
  /\ tasks[t].pc = "halted"
  /\ tasks' = [tasks EXCEPT ![t] = IdleTask]
  /\ nluResultObj' = Leftover(t)
  /\ UNCHANGED <<models, lang, isMuted, conv, killq, tcp, listeners, env, lab>>

\* ------------------------------------------------------------------ language switch

\* The callback of kill(pid, ...) in switchLanguage: tree-kill has ended the
\* process of that pid; a new process is spawned (its pid the number of spawns
\* so far), the client connects, and connectedHandler, a function
\* made by this call of switchLanguage, is removed from and added to the
\* 'connected' listeners.
KillCallback(i) ==
  /\ i \in 1..Len(killq)
  /\ LET pid == Len(listeners) + 1
     IN  tcp' = [tcp EXCEPT
                   !.alive = (@ \ {killq[i].pid}) \cup {pid},
                   !.pid = pid,
                   !.connecting = @ + 1]
  /\ listeners' = Append(listeners, [utterance |-> killq[i].utterance, runs |-> 0])
  /\ killq' = [k \in 1..(Len(killq) - 1) |-> IF k < i THEN killq[k] ELSE killq[k + 1]]
  /\ UNCHANGED <<models, lang, isMuted, conv, nluResultObj, tasks, env, lab>>

IdleTasks == {t \in TaskIds : tasks[t].pc = "idle"}

\* The k-th idle activation.
IdleTask_(k) == CHOOSE t \in IdleTasks : Cardinality({u \in IdleTasks : u < t}) = k - 1

\* TCP_CLIENT emits 'connected': every listener runs and calls
\* process(utterance) of its switchLanguage call; runs counts its calls.
Connected ==
  /\ tcp.connecting > 0
  /\ env.interleave \/ NoTaskRuns
  /\ Cardinality(IdleTasks) >= Len(listeners)
  /\ tcp' = [tcp EXCEPT !.connecting = @ - 1]
  /\ listeners' = [k \in 1..Len(listeners) |-> [listeners[k] EXCEPT !.runs = @ + 1]]
  /\ tasks' = [t \in TaskIds |->
                 IF \E k \in 1..Len(listeners) : t = IdleTask_(k)
                 THEN LET k == CHOOSE k \in 1..Len(listeners) : t = IdleTask_(k)
                      IN  Enter([Bundle(t) EXCEPT !.tk = [IdleTask EXCEPT !.by = "connected"]],
                                listeners[k].utterance).tk
                 ELSE tasks[t]]
  /\ UNCHANGED <<models, lang, isMuted, conv, nluResultObj, killq, env, lab>>

\* The connection of TCP_CLIENT fails: no 'connected' event follows.
ConnectFail ==
  /\ tcp.connecting > 0
  /\ tcp' = [tcp EXCEPT !.connecting = @ - 1]
  /\ UNCHANGED <<models, lang, isMuted, conv, nluResultObj, tasks, killq, listeners, env, lab>>

\* ------------------------------------------------------------------ specification

Next ==
  \/ \E utterance \in Utterances : Process(utterance)
  \/ \E t \in TaskIds : MergeReturn(t)
  \/ \E t \in TaskIds : LoopNerReturn(t)
  \/ \E t \in TaskIds : LoopResolverReturn(t)
  \/ \E t \in TaskIds : LoopBrainReturn(t)
  \/ \E t \in TaskIds : SlotNerReturn(t)
  \/ \E t \in TaskIds : SlotBrainReturn(t)
  \/ \E t \in TaskIds : ClassifyReturn(t)
  \/ \E t \in TaskIds : NerReturn(t)
  \/ \E t \in TaskIds : RouteReturn(t)
  \/ \E t \in TaskIds : BrainReturn(t)
  \/ \E t \in TaskIds : Deliver(t)
  \/ \E t \in TaskIds : Abandon(t)
  \/ \E i \in 1..MaxSwitches : KillCallback(i)
  \/ Connected
  \/ ConnectFail

Spec == Init /\ [][Next]_vars

\* The steps of a turn of PlainIntents: no context with slots or in an action
\* loop is ever set, which the handlers of those need.
PlainTurn ==
  \/ \E utterance \in Utterances : Process(utterance)
  \/ \E t \in TaskIds : MergeReturn(t)
  \/ \E t \in TaskIds : ClassifyReturn(t)
  \/ \E t \in TaskIds : NerReturn(t)
  \/ \E t \in TaskIds : RouteReturn(t)
  \/ \E t \in TaskIds : BrainReturn(t)
  \/ \E t \in TaskIds : Deliver(t)
  \/ \E t \in TaskIds : Abandon(t)

\* The start of a session: the loaders run while utterances arrive.
NextBoot ==
  \/ loadNLPModels
  \/ \E m \in ModelNames : BootstrapReturn(m)
  \/ \E m \in ModelNames : LoadReturn(m)
  \/ PlainTurn

SpecBoot == InitBoot /\ [][NextBoot]_vars

\* A session with several language switches.
NextSwitch ==
  \/ PlainTurn
  \/ \E i \in 1..MaxSwitches : KillCallback(i)
  \/ Connected
  \/ ConnectFail

SpecSwitch == InitSwitch /\ [][NextSwitch]_vars

\* Utterances of a session whose callers do not wait for the reconnection.
MaxRaceTurns == 2

\* Callers who queue their calls on the promise of process() only: the turn of
\* a language switch resolves when switchLanguage returns, and the next
\* utterance may come before the kill callback and the 'connected' event.
RacingCallers ==
  [accept |-> "settled", turns |-> MaxRaceTurns, switches |-> MaxSwitches,
   interleave |-> TRUE, intents |-> {<<"s2", "run">>}]

InitRace ==
  /\ Constructed
  /\ models = Loaded
  /\ isMuted = FALSE
  /\ env = RacingCallers
  /\ lab = NoLab

SpecRace == InitRace /\ [][NextSwitch]_vars

\* ------------------------------------------------------------------ fallback() on its own

\* The words of the fallback tables.
Words == {"a", "b"}

SeqsUpTo(S, n) == UNION {[1..k -> S] : k \in 0..n}

\* The classifications of the fallbacks of a table, by position.
FallbackTable(fallbacks) ==
  [i \in 1..Len(fallbacks) |->
     [words |-> fallbacks[i].words,
      domain |-> IF i = 1 THEN "d1" ELSE "d2",
      skill |-> IF i = 1 THEN "s1" ELSE "s2",
      action |-> IF i = 1 THEN "run" ELSE "ask"]]

\* this.nluResultObj when fallback(fallbacks) is called on its own: a
\* classification None of the main classifier, and entities.
UnknownResultObj ==
  [defaultNluResultObj EXCEPT !.utterance = "u1", !.entities = {"product"},
                              !.domain = "default", !.skill = "None",
                              !.confidence = 68]

\* fallback(fallbacks) is given an utterance and a table.
InitFallback ==
  /\ Constructed
  /\ models = Loaded
  /\ isMuted = FALSE
  /\ env = QueuedCallers
  /\ lab \in [kind : {"fallback"}, text : SeqsUpTo(Chars, MaxUttLen),
              fallbacks : SeqsUpTo([words : SeqsUpTo(Words, MaxWords)], MaxFallbacks),
              called : {FALSE}, result : {0}, obj : {UnknownResultObj}]

\* fallback(fallbacks) returns.
FallbackReturn ==
  /\ lab.kind = "fallback"
  /\ ~lab.called
  /\ lab' = [lab EXCEPT !.called = TRUE,
                        !.result = FallbackIndex(lab.text, lab.fallbacks),
                        !.obj = fallbackOn(lab.obj, lab.text, FallbackTable(lab.fallbacks))]
  /\ UNCHANGED <<models, lang, isMuted, conv, nluResultObj, tasks, killq, tcp, listeners, env>>

SpecFallback == InitFallback /\ [][FallbackReturn]_vars

\* ------------------------------------------------------------------ the re-pick on its own

\* The classifier's answer and the active context's name the re-pick is given.
InitRepick ==
  /\ Constructed
  /\ models = Loaded
  /\ isMuted = FALSE
  /\ env = QueuedCallers
  /\ lab \in [kind : {"repick"},
              result : [intent : AlternateIntents, score : Scores,
                        classifications :
                          SeqsUpTo([intent : AlternateIntents, score : Scores],
                                   MaxClassifications)],
              name : {NoName, <<"d1", "s1">>, <<"d2", "s2">>},
              called : {FALSE},
              pick : {[score |-> 0, intent |-> <<>>, domain |-> Null]}]

\* The classification is picked.
RepickReturn ==
  /\ lab.kind = "repick"
  /\ ~lab.called
  /\ lab' = [lab EXCEPT
               !.called = TRUE,
               !.pick = PickClassification(
                          [intent |-> lab.result.intent, score |-> lab.result.score,
                           domain |-> getIntentDomain(lab.result.intent),
                           classifications |-> lab.result.classifications],
                          lab.name # NoName, lab.name)]
  /\ UNCHANGED <<models, lang, isMuted, conv, nluResultObj, tasks, killq, tcp, listeners, env>>

SpecRepick == InitRepick /\ [][RepickReturn]_vars

\* ------------------------------------------------------------------ mergeSpacyEntities on its own

\* Entities the tokenization service returns in one answer.
MaxSpacyEntities == 2

\* Calls of mergeSpacyEntities with the same answer.
MaxMergeCalls == 2

\* String.prototype.toUpperCase on a character.
UpperChar(c) == IF c = "a" THEN "A" ELSE IF c = "b" THEN "B" ELSE c

\* StringHelper.ucFirst
ucFirst(value) == IF value = <<>> THEN value ELSE <<UpperChar(Head(value))>> \o Tail(value)

\* The texts with those of more that they do not hold yet.
RECURSIVE AddTexts(_, _, _)
AddTexts(texts, more, k) ==
  IF k > Len(more) THEN texts
  ELSE AddTexts(IF includes(texts, more[k]) THEN texts ELSE Append(texts, more[k]), more, k + 1)

\* addRuleOptionTexts with a new rule appended at every call.
addRuleOptionTextsAppends(dict, l, entity, option, texts) ==
  Append(dict, [lang |-> l, entity |-> entity, option |-> option, texts |-> texts])

\* The entity options of the main classifier, one rule per language, entity
\* and option: the texts of a call are added to the rule of its option, which
\* is made when there is none.
addRuleOptionTexts(dict, l, entity, option, texts) ==
  LET P == {k \in 1..Len(dict) :
              dict[k].lang = l /\ dict[k].entity = entity /\ dict[k].option = option}
  IN  IF P = {}
      THEN Append(dict, [lang |-> l, entity |-> entity, option |-> option,
                         texts |-> AddTexts(<<>>, texts, 1)])
      ELSE [k \in 1..Len(dict) |->
              IF k \in P THEN [dict[k] EXCEPT !.texts = AddTexts(@, texts, 1)] ELSE dict[k]]

\* const spacyEntity = { [entity]: { options: { [resolution.value]: [ucFirst(resolution.value)] } } }
spacyEntityOf(e) == [entity |-> e.entity, option |-> e.value, texts |-> <<ucFirst(e.value)>>]

\* this.mainNlp.addEntities(spacyEntity, BRAIN.lang)
addEntities(dict, spacyEntity, l) ==
  addRuleOptionTexts(dict, l, spacyEntity.entity, spacyEntity.option, spacyEntity.texts)

\* spacyEntities.forEach(...) of mergeSpacyEntities
RECURSIVE MergeLoop(_, _, _, _)
MergeLoop(dict, spacyEntities, k, l) ==
  IF k > Len(spacyEntities) THEN dict
  ELSE MergeLoop(addEntities(dict, spacyEntityOf(spacyEntities[k]), l), spacyEntities, k + 1, l)

\* mergeSpacyEntities(utterance) once Ner.getSpacyEntities has answered.
mergeSpacyEntities(dict, spacyEntities, l) ==
  IF Len(spacyEntities) > 0 THEN MergeLoop(dict, spacyEntities, 1, l) ELSE dict

\* What the tokenization service finds.
SpacyEntities ==
  [entity : {"person", "place"}, value : {<<"a">>, <<"a", "b">>, <<"A">>}]

\* The entity options of the main classifier before the call: none, or the
\* option "a" of person with a text in the language spoken, with another text,
\* or in the other language.
TrainedEntities ==
  {<<>>,
   <<[lang |-> "en", entity |-> "person", option |-> <<"a">>, texts |-> <<<<"A">>>>]>>,
   <<[lang |-> "en", entity |-> "person", option |-> <<"a">>, texts |-> <<<<"a">>>>]>>,
   <<[lang |-> "fr", entity |-> "person", option |-> <<"a">>, texts |-> <<<<"A">>>>]>>}

\* mergeSpacyEntities is called on an utterance for which the tokenization
\* service gives the same answer at every call.
InitMerge ==
  /\ Constructed
  /\ models = Loaded
  /\ isMuted = FALSE
  /\ env = QueuedCallers
  /\ lab \in [kind : {"merge"}, entities : SeqsUpTo(SpacyEntities, MaxSpacyEntities),
              dict : TrainedEntities, calls : {0}, once : {<<>>}]

\* mergeSpacyEntities(utterance) returns.
MergeSpacyReturn ==
  /\ lab.kind = "merge"
  /\ lab.calls < MaxMergeCalls
  /\ LET merged == mergeSpacyEntities(lab.dict, lab.entities, lang)
     IN  lab' = [lab EXCEPT !.dict = merged,
                            !.calls = @ + 1,
                            !.once = IF lab.calls = 0 THEN merged ELSE @]
  /\ UNCHANGED <<models, lang, isMuted, conv, nluResultObj, tasks, killq, tcp, listeners, env>>

SpecMerge == InitMerge /\ [][MergeSpacyReturn]_vars

\* ------------------------------------------------------------------ properties

Count(seq, e) == Cardinality({i \in 1..Len(seq) : seq[i] = e})

\* Event a, and later event b.
After(seq, a, b) == \E i, j \in 1..Len(seq) : i < j /\ seq[i] = a /\ seq[j] = b

AllLoaded == \A m \in ModelNames : models[m].st = "loaded"

\* C1: hasNlpModels() is true exactly when the three models have been loaded,
\* and a process() call made while one of them is not loaded rejects as
\* "models missing", the active context staying as it was (no turn can have
\* set one before).
C1_Readiness ==
  /\ hasNlpModels <=> AllLoaded
  /\ \A t \in TaskIds :
       (tasks[t].pc # "idle" /\ ~AllLoaded) =>
         /\ tasks[t].pc = "done"
         /\ tasks[t].out = "rejected"
         /\ tasks[t].branch = "noModels"
         /\ conv = DefaultContext

\* A turn has reached the main classifier while a model is not loaded.
C1_ServedUnloaded ==
  \E t \in TaskIds : ~AllLoaded /\ Count(tasks[t].ev, "classify") > 0

\* The lowercased tokens of an utterance.
Tokens(text) == split(toLowerCase(text))

\* Every word of the fallback occurs among the tokens.
Satisfied(fb, text) ==
  \A j \in 1..Len(fb.words) : includes(Tokens(text), fb.words[j])

\* The first fallback of the table that is satisfied, 0 with none.
FirstSatisfied(text, fallbacks) ==
  LET S == {i \in 1..Len(fallbacks) : Satisfied(fallbacks[i], text)}
  IN  IF S = {} THEN 0 ELSE CHOOSE i \in S : \A j \in S : i <= j

\* C2: fallback(fallbacks) returns the first fallback of the table all of
\* whose words occur among the lowercased tokens of the utterance, and false
\* only when there is none.
C2_FirstMatch ==
  (lab.kind = "fallback" /\ lab.called) =>
    lab.result = FirstSatisfied(lab.text, lab.fallbacks)

\* fallback() has returned the second fallback of a table.
C2_SecondMatched ==
  lab.kind = "fallback" /\ lab.called /\ lab.result = 2

\* A classification the re-pick takes: above the threshold and of the active
\* context's domain and skill.
Qualifies(c, name) ==
  /\ c.score > ScoreThreshold
  /\ <<getIntentDomain(c.intent), SkillOf(c.intent)>> = name

\* C3: with an active context, when a classification of the list has a score
\* above 0.6 and the context's name, the pick is such a classification (its
\* intent, its score, the context's domain and skill); otherwise, and without
\* a context, the pick is the classifier's top intent, score and domain.
C3_Repick ==
  (lab.kind = "repick" /\ lab.called) =>
    LET cs == lab.result.classifications
        Q == {k \in 1..Len(cs) : Qualifies(cs[k], lab.name)}
    IN  IF lab.name # NoName /\ Q # {}
        THEN /\ <<lab.pick.domain, SkillOf(lab.pick.intent)>> = lab.name
             /\ \E k \in Q : /\ lab.pick.intent = cs[k].intent
                              /\ lab.pick.score = cs[k].score
        ELSE lab.pick = [score |-> lab.result.score, intent |-> lab.result.intent,
                         domain |-> getIntentDomain(lab.result.intent)]

\* A classification of the context's skill was picked over a top intent of
\* another skill with a higher score.
C3_RepickedLower ==
  /\ lab.kind = "repick"
  /\ lab.called
  /\ lab.name = <<"d1", "s1">>
  /\ lab.result.intent = <<"s2", "run">>
  /\ lab.result.score = 72
  /\ lab.pick.intent = <<"s1", "ask">>
  /\ lab.pick.score = 68

\* A slot not filled in slots0 is filled in slots.
FilledSince(slots0, slots) ==
  \E i \in 1..Len(slots0) :
    ~slots0[i].isFilled /\ i <= Len(slots) /\ slots[i].isFilled

\* C4: a turn routed to the slot filler finishes, and has then filled a slot
\* that was not filled or cleaned the context.
C4_SlotProgress ==
  \A t \in TaskIds :
    Count(tasks[t].ev, "slotFill") > 0 =>
      /\ tasks[t].pc # "halted"
      /\ tasks[t].pc = "done" =>
           \/ After(tasks[t].ev, "slotFill", "clean")
           \/ FilledSince(tasks[t].slots0, conv.slots)

\* A slot-filling turn was rejected with its context and slots as they were.
C4_SlotTurnWithoutProgress ==
  \E t \in TaskIds :
    /\ tasks[t].pc = "done"
    /\ tasks[t].branch = "slotNerError"
    /\ hasActiveContext(conv)
    /\ conv.slots = tasks[t].slots0

\* C5: at most one 'connected' listener is registered, and no listener has
\* called process() with its utterance more than once.
C5_OneRedispatch ==
  /\ Len(listeners) <= 1
  /\ \A k \in 1..Len(listeners) : listeners[k].runs <= 1

\* The listener of the first switch has run at the reconnect of the second.
C5_RedispatchedTwice ==
  Len(listeners) = 2 /\ listeners[1].runs = 2 /\ listeners[2].runs = 1

\* C6: between turns an active context has the language of BRAIN.lang, and
\* the turn that switches the language leaves no active context.
C6_ContextLang ==
  /\ (NoTaskRuns /\ hasActiveContext(conv)) => conv.lang = lang
  /\ \A t \in TaskIds :
       (tasks[t].pc = "done" /\ tasks[t].branch = "switch") => ~hasActiveContext(conv)

\* Between turns, the context of the language spoken before the switch.
C6_StaleContext ==
  NoTaskRuns /\ hasActiveContext(conv) /\ conv.lang = "en" /\ lang = "fr"

\* The action an intent names declares loop.expected_item.
DeclaresLoop(intent) == ActionConfig(SkillOf(intent), ActionOf(intent)).loop # NoLoop

\* C7: an active context in an action loop has the intent of an action that
\* declares loop.expected_item.
C7_LoopIntent == conv.isInActionLoop => DeclaresLoop(conv.intent)

\* The action loop has moved to a next action without a loop and stays a loop.
C7_LoopOnPlainAction ==
  \E t \in TaskIds :
    /\ tasks[t].pc = "done"
    /\ tasks[t].branch = "loopNext"
    /\ conv.isInActionLoop
    /\ ~DeclaresLoop(conv.intent)

\* C8: when process() has resolved with the result of the Brain, the active
\* context has the name domain.skill of the result, or, the result having a
\* nextAction, the action name of the result's next_action.
C8_ContextOfResult ==
  \A t \in TaskIds :
    (tasks[t].pc = "done" /\ tasks[t].out = "resolved" /\ tasks[t].res = "brain") =>
      IF tasks[t].reply.hasNextAction
      THEN conv.actionName = tasks[t].reply.next_action
      ELSE conv.name = <<tasks[t].reply.domain, tasks[t].reply.skill>>

\* A fallback's action has run and the context is named after the intent None.
C8_ContextNamedNone ==
  \E t \in TaskIds :
    /\ tasks[t].pc = "done"
    /\ tasks[t].res = "brain"
    /\ tasks[t].branch = "brain"
    /\ tasks[t].reply.skill = "s2"
    /\ conv.name = <<"d2", "None">>

\* The branches that end a turn without BRAIN.execute.
NonBrainBranches ==
  {"noModels", "unsupported", "switch", "notFound", "slotQuestion", "question"}

TypingOffs(t) == Count(tasks[t].ev, "is-typing:false")

\* C9 as stated: every turn that ends on such a branch has emitted
\* is-typing=false exactly once.
C9_OneTypingOff ==
  \A t \in TaskIds :
    (tasks[t].pc = "done" /\ tasks[t].branch \in NonBrainBranches) => TypingOffs(t) = 1

\* C9: a turn that ends without BRAIN.execute has emitted is-typing=false
\* once on the unsupported locale and on a slot question, once unless the
\* Brain is muted (then never) on missing models and on an unknown intent,
\* and never on the language switch.
C9_TypingOffByBranch ==
  \A t \in TaskIds :
    (tasks[t].pc = "done" /\ tasks[t].branch \in NonBrainBranches) =>
      TypingOffs(t) =
        CASE tasks[t].branch = "switch" -> 0
          [] tasks[t].branch \in {"noModels", "notFound"} -> IF isMuted THEN 0 ELSE 1
          [] OTHER -> 1

\* A turn has ended on the language switch without is-typing=false.
C9_SwitchWithoutTypingOff ==
  \E t \in TaskIds :
    tasks[t].pc = "done" /\ tasks[t].branch = "switch" /\ TypingOffs(t) = 0

\* C10: no process() call is left with a promise that nothing settles.
C10_Settles == \A t \in TaskIds : tasks[t].pc # "halted"

\* The classifier has thrown and the promise of the turn stays pending.
C10_PendingForever ==
  \E t \in TaskIds :
    tasks[t].pc = "halted" /\ tasks[t].out = "pending" /\ tasks[t].branch = "classifyError"

\* The turn's classification comes from the active context (action loop, slot
\* filling completion) or from a fallback, not from the main classifier.
NotClassified(t) ==
  \/ tasks[t].pc \in {"loopBrain", "slotBrain"}
  \/ tasks[t].pc = "brain" /\ tasks[t].intent = NoneIntent

\* C11: the object BRAIN.execute is running on has the confidence 1 when its
\* classification was built by handleActionLoop, by slotFill for the filled
\* slots, or by fallback().
C11_FullConfidence ==
  \A t \in TaskIds : NotClassified(t) => tasks[t].barg.confidence = FullConfidence

\* BRAIN.execute runs on the classification of a fallback, and on that of an
\* action loop.
C11_FallbackExecutes ==
  \E t \in TaskIds :
    /\ tasks[t].pc = "brain"
    /\ tasks[t].intent = NoneIntent
    /\ tasks[t].barg.skill = "s2"
    /\ tasks[t].barg.confidence = FullConfidence

\* C12: when fallback(fallbacks) returns the object and not false, the object
\* has the domain, skill and action of the fallback it matched, the confidence
\* 1 and no entities.
C12_FallbackResult ==
  (lab.kind = "fallback" /\ lab.called /\ lab.result # 0) =>
    LET fb == FallbackTable(lab.fallbacks)[lab.result]
    IN  /\ lab.obj.domain = fb.domain
        /\ lab.obj.skill = fb.skill
        /\ lab.obj.action = fb.action
        /\ lab.obj.confidence = FullConfidence
        /\ lab.obj.entities = {}

\* fallback() has matched the second fallback of a table on an object that
\* had entities.
C12_SecondFallbackTaken ==
  /\ lab.kind = "fallback"
  /\ lab.called
  /\ lab.result = 2
  /\ lab.obj.skill = "s2"
  /\ lab.obj.action = "ask"
  /\ lab.obj.entities = {}

\* C13: while a reconnection is under way, so whenever the 'connected'
\* handler fires, the only tokenization process alive is the one spawned
\* last: every process spawned before it has been ended by tree-kill.
C13_PreviousProcessGone == tcp.connecting > 0 => tcp.alive = {tcp.pid}

\* Two switches have killed the same pid: the process spawned by the first
\* callback is alive beside the one spawned by the second.
C13_StrandedProcess == tcp.connecting > 0 /\ tcp.alive = {1, 2} /\ tcp.pid = 2

\* The branches a failed extractEntities or a failed BRAIN.execute ends a
\* turn on.
ErrorBranches ==
  {"slotNerError", "loopNerError", "brainError", "loopError", "slotBrainError"}

\* Activation t takes the step in which extractEntities or BRAIN.execute
\* fails: the step ends the turn on an error branch, or it is the return of
\* extractEntities in process() with the entities left as they were, as the
\* catch leaves them.
FailedStep(t) ==
  /\ tasks[t].pc \in {"ner", "slotNer", "loopNer", "brain", "loopBrain", "slotBrain"}
  /\ tasks'[t] # tasks[t]
  /\ \/ tasks'[t].branch \in ErrorBranches
     \/ /\ tasks[t].pc = "ner"
        /\ nluResultObj'.entities = nluResultObj.entities

\* C14: the step in which extractEntities or BRAIN.execute fails leaves the
\* active context as it was before the step (cleaned, where slotFill had
\* cleaned it before calling the Brain).
C14_StoreKept == [][\A t \in TaskIds : FailedStep(t) => conv' = conv]_vars

\* The Brain has failed on the normal path and the context set for its action
\* is still the active one.
C14_ContextAfterBrainError ==
  \E t \in TaskIds :
    /\ tasks[t].pc = "done"
    /\ tasks[t].branch = "brainError"
    /\ hasActiveContext(conv)
    /\ conv.actionName = "run"

\* The BRAIN.execute calls of a turn since slotFill was last entered.
ExecutesSinceSlotFill(ev) ==
  LET S == {i \in 1..Len(ev) : ev[i] = "slotFill"}
      last == CHOOSE i \in S : \A j \in S : j <= i
  IN  Cardinality({j \in 1..Len(ev) : j > last /\ ev[j] = "execute"})

\* slotFill finds the slots all filled and calls BRAIN.execute: the object has
\* the context's original utterance and next action and the confidence 1, the
\* context is cleaned, and this is one call of the Brain.
CompletionStep(t) ==
  (tasks[t].pc = "slotNer" /\ tasks'[t].pc = "slotBrain") =>
    /\ tasks'[t].barg.utterance = conv.originalUtterance
    /\ tasks'[t].barg.action = conv.nextAction
    /\ tasks'[t].barg.action # Null
    /\ tasks'[t].barg.confidence = FullConfidence
    /\ conv' = DefaultContext
    /\ Count(tasks'[t].ev, "execute") = Count(tasks[t].ev, "execute") + 1

\* While the Brain runs for the filled slots there is no active context; once
\* the turn is over the Brain has been called once since slotFill was entered,
\* and there is an active context only if the reply names a next action.
CompletionState(t) ==
  /\ tasks[t].pc = "slotBrain" => conv = DefaultContext
  /\ (tasks[t].pc = "done" /\ tasks[t].branch \in {"slotDone", "slotBrainError"}) =>
       /\ ExecutesSinceSlotFill(tasks[t].ev) = 1
       /\ hasActiveContext(conv) =>
            (tasks[t].branch = "slotDone" /\ tasks[t].reply.next_action # Null)

C17_ExecutorError ==
  \A t \in TaskIds :
    (/\ tasks[t].pc = "done"
     /\ tasks[t].stack = <<>>
     /\ tasks[t].branch \in {"brainError", "slotBrainError"}) =>
      /\ TypingOffs(t) >= 1
      /\ tasks[t].out = "rejected"
      /\ tasks[t].res = "error"

\* The Brain has failed on the filled slots: the turn is rejected with {} and
\* no is-typing=false was emitted.
C17_SilentSlotFailure ==
  \E t \in TaskIds :
    /\ tasks[t].pc = "done"
    /\ tasks[t].stack = <<>>
    /\ tasks[t].branch = "slotBrainError"
    /\ tasks[t].out = "rejected"
    /\ tasks[t].res = "empty"
    /\ TypingOffs(t) = 0
    /\ ~isMuted

ProcessEvents == {"process:" \o u : u \in Utterances}

\* handleActionLoop has just called process() for an utterance without the
\* expected item.
LoopReentry(t) ==
  /\ tasks[t].pc = "merge"
  /\ tasks[t].stack # <<>>
  /\ tasks[t].stack[Len(tasks[t].stack)] = "loopOOT"

\* C18: when handleActionLoop re-enters process() for an utterance without the
\* expected item, the out-of-topic phrase was spoken, then the context
\* cleaned, then process() called, once and with the utterance of the turn;
\* the context is the cleaned one and BRAIN.execute has not been called since
\* the turn began.
C18_OutOfTopic ==
  \A t \in TaskIds :
    LoopReentry(t) =>
      LET ev == tasks[t].ev
          n == Len(ev)
          P == {i \in 1..(n - 1) : ev[i] \in ProcessEvents}
      IN  /\ n >= 4
          /\ ev[n] = "process:" \o tasks[t].utt
          /\ ev[n - 1] = "clean"
          /\ ev[n - 2] = "talk:random_context_out_of_topic"
          /\ P = {1}
          /\ ev[1] = ev[n]
          /\ Count(ev, "execute") = 0
          /\ conv = DefaultContext

\* The loop guess has met an utterance without a number and re-entered
\* process() with it.
C18_LoopLeft ==
  \E t \in TaskIds :
    /\ LoopReentry(t)
    /\ tasks[t].intent = <<"s1", "guess">>
    /\ conv = DefaultContext
    /\ Count(tasks[t].ev, "process:" \o tasks[t].utt) = 2

\* BRAIN.execute has returned in handleActionLoop with a result, and the
\* context follows from the result: cleaned and process() called with the
\* original utterance on a restart; cleaned at the end of a loop without next
\* action; moved to the next action, its loop included, at the end of a loop
\* with one; unchanged otherwise.
LoopReplyStep(t) ==
  (tasks[t].pc = "loopBrain" /\ tasks'[t].reply.core \in CoreReports) =>
    LET r == tasks'[t].reply
    IN  CASE r.core = "restart" ->
               /\ conv' = DefaultContext
               /\ tasks'[t].ev = tasks[t].ev \o <<"clean", "process:" \o conv.originalUtterance>>
          [] r.core = "stop" /\ r.next_action = Null -> conv' = DefaultContext
          [] r.core = "stop" /\ r.next_action # Null ->
               conv' = [conv EXCEPT !.intent = <<r.skill, r.next_action>>,
                                    !.actionName = r.next_action,
                                    !.isInActionLoop = r.nextLoop]
          [] OTHER -> conv' = conv

\* C19: after BRAIN.execute has succeeded in an action loop the context is
\* what the reply makes it (LoopReplyStep).
C19_LoopReply == [][\A t \in TaskIds : LoopReplyStep(t)]_vars

\* The loop guess has ended on the next action run, which has no loop: intent
\* and action name are those of run and the context is still in a loop.
C19_NextActionStillLooping ==
  \E t \in TaskIds :
    /\ tasks[t].pc = "done"
    /\ tasks[t].branch = "loopNext"
    /\ tasks[t].reply.core = "stop"
    /\ ~tasks[t].reply.nextLoop
    /\ conv.intent = <<"s1", "run">>
    /\ conv.actionName = "run"
    /\ conv.isInActionLoop

\* process() goes on after mergeSpacyEntities: to handleActionLoop with a
\* context in an action loop; else to handleSlotFilling with a context that
\* has slots; in both cases without a call of the main classifier; and to the
\* main classifier otherwise.
DispatchStep(t) ==
  (tasks[t].pc = "merge" /\ tasks'[t] # tasks[t] /\ tasks'[t].pc # "halted") =>
    LET ev == tasks[t].ev
        ev2 == tasks'[t].ev
    IN  IF hasActiveContext(conv) /\ conv.isInActionLoop
        THEN tasks'[t].pc = "loopNer" /\ ev2 = ev
        ELSE IF hasActiveContext(conv) /\ Len(conv.slots) > 0
        THEN /\ Len(ev2) > Len(ev)
             /\ ev2[Len(ev) + 1] = "slotFill"
             /\ Count(ev2, "classify") = Count(ev, "classify")
        ELSE tasks'[t].pc = "classify" /\ ev2 = Append(ev, "classify")

\* C20: the dispatch of process() follows the priority of DispatchStep.
C20_DispatchPriority == [][\A t \in TaskIds : DispatchStep(t)]_vars

\* A context in an action loop that also holds slots is given to
\* handleActionLoop, the main classifier not having been called.
C20_LoopBeforeSlots ==
  \E t \in TaskIds :
    /\ tasks[t].pc = "loopNer"
    /\ conv.isInActionLoop
    /\ Len(conv.slots) > 0
    /\ Count(tasks[t].ev, "classify") = 0

\* The events of a turn that goes to the main classifier and ends there.
EndsAtClassifier(ev) ==
  /\ Len(ev) >= 2
  /\ ev[1] \in ProcessEvents
  /\ ev[2] = "classify"
  /\ \A i \in 3..Len(ev) :
       ev[i] \in {"talk:random_language_not_supported", "talk:random_unknown_intents",
                  "is-typing:false"}

\* A turn has ended on the unsupported locale or on the unknown intent: since
\* it began it has only called the classifier, spoken and emitted is-typing
\* (no BRAIN.execute, no cleanActiveContext, no language switch), and it
\* resolves with {} or with the message.
QuietEnd(t) ==
  (/\ tasks[t].pc = "done"
   /\ tasks[t].stack = <<>>
   /\ tasks[t].branch \in {"unsupported", "notFound"}) =>
    /\ EndsAtClassifier(tasks[t].ev)
    /\ tasks[t].out = "resolved"
    /\ tasks[t].res = IF tasks[t].branch = "unsupported" THEN "empty" ELSE "msg"

\* The step that ends a turn on one of the two branches changes neither the
\* active context, nor BRAIN.lang, nor the kills under way.
QuietEndStep(t) ==
  (/\ tasks[t].pc = "classify"
   /\ tasks'[t].pc = "done"
   /\ tasks'[t].branch \in {"unsupported", "notFound"}) =>
    /\ conv' = conv
    /\ lang' = lang
    /\ killq' = killq

RouteReturns(t) ==
  /\ tasks[t].pc = "route"
  /\ tasks'[t] # tasks[t]
  /\ tasks'[t].pc # "halted"

\* What follows routeSlotFilling returning true when asks, false otherwise:
\* true, the context holds the mandatory slots seeded with the entities of the
\* utterance, the suggestions and the question of the first slot not filled
\* were emitted, and the turn resolves {} without BRAIN.execute; false, no
\* question is asked.
RouteOutcome(t, asks) ==
  LET slots == getMandatorySlots(tasks[t].intent)
      seeded == setSlots(slots, nluResultObj.entities)
  IN  /\ asks <=> tasks'[t].branch = "question"
      /\ Len(slots) > 0 => conv'.slots = seeded
      /\ tasks'[t].branch = "question" =>
           /\ tasks'[t].ev =
                tasks[t].ev \o <<"suggest", "talk:pickedQuestion", "is-typing:false">>
           /\ tasks'[t].pc = "done"
           /\ tasks[t].stack = <<>> => (tasks'[t].out = "resolved" /\ tasks'[t].res = "empty")
      /\ tasks'[t].branch # "question" =>
           Count(tasks'[t].ev, "talk:pickedQuestion") = Count(tasks[t].ev, "talk:pickedQuestion")

AfterClassification(t) == tasks[t].pc \in {"ner", "route"}

\* C23: from the classification of a turn to its BRAIN.execute the field
\* this.nluResultObj holds the object that turn built, and the Brain is given
\* an object of that turn, with the utterance of that turn.
C23_OwnResult ==
  \A t \in TaskIds :
    /\ AfterClassification(t) => nluResultObj.owner = t
    /\ tasks[t].pc = "brain" =>
         /\ tasks[t].barg.owner = t
         /\ tasks[t].barg.utterance = tasks[t].utt

\* The turn of a later utterance gives the Brain the object built by the
\* process() call of a 'connected' listener, with the utterance of the switch.
C23_ForeignResult ==
  \E t, u \in TaskIds :
    /\ t # u
    /\ tasks[t].by = "user"
    /\ tasks[u].by = "connected"
    /\ tasks[t].pc = "brain"
    /\ tasks[t].barg.owner = u
    /\ tasks[t].barg.utterance = tasks[u].utt
    /\ tasks[t].barg.utterance # tasks[t].utt

\* Activation t is at the start of a process() call made by handleActionLoop
\* or handleSlotFilling: past the models check, before the dispatch.
NestedStart(t) == tasks[t].stack # <<>> /\ tasks[t].pc = "merge"

\* C24: a process() call made by handleActionLoop or handleSlotFilling starts
\* with no active context, and its dispatch goes to the main classifier (or
\* mergeSpacyEntities throws).
C24_NestedStartsClean ==
  /\ [](\A t \in TaskIds : NestedStart(t) => ~hasActiveContext(conv))
  /\ [][\A t \in TaskIds :
          (NestedStart(t) /\ tasks'[t] # tasks[t]) =>
            tasks'[t].pc \in {"classify", "halted"}]_vars

\* handleSlotFilling has called process() from within a process() call it had
\* made itself, the context still there with its slots and no next action, and
\* not cleaned since the turn began.
C24_SlotFillingReentered ==
  \E t \in TaskIds :
    /\ NestedStart(t)
    /\ tasks[t].stack = <<"slot", "slot">>
    /\ hasActiveContext(conv)
    /\ Len(conv.slots) > 0
    /\ conv.nextAction = Null
    /\ Count(tasks[t].ev, "clean") = 0
    /\ Count(tasks[t].ev, "process:" \o tasks[t].utt) = 3

====
